---- MODULE Spec2Model ----
(***************************************************************************)
(* Robinclaw: the ledger store (models.py), the exchange gateway           *)
(* (robinclaw/trading.py) and the authenticated HTTP handlers              *)
(* (robinclaw/web/app.py).                                                 *)
(*                                                                         *)
(* Every handler is a sequence of calls on the store (a SQLite file that   *)
(* each call opens anew) and on the remote exchange.  No handler holds a   *)
(* lock or a transaction across calls, so requests served by different     *)
(* workers over the same database file interleave at every such call: one  *)
(* action of this model is one store call or one gateway call together     *)
(* with the pure code around it.  The remote exchange is an oracle: each   *)
(* remote call either raises or returns one of a small set of responses.   *)
(*                                                                         *)
(* REAL columns hold integers here (amounts in whole units); the           *)
(* percentage, a quotient, is an exact fraction [num, den] in lowest       *)
(* terms.  Prices are integers too, in ten-thousandths.  An Optional       *)
(* value (a NULL column, Python's None) is <<>>, and a present value v is  *)
(* <<v>>.                                                                  *)
(*                                                                         *)
(* Specifications:                                                         *)
(*   Spec              concurrent requests to the authenticated endpoints  *)
(*   LedgerSpec        one request, with trades recorded meanwhile         *)
(*   RegistrationSpec  concurrent registrations and direct create_agent    *)
(*   StatusSpec        direct update_agent_status and get_closed_agents    *)
(*   TradesSpec        direct record_trade and get_agent_stats             *)
(*   GatewaySpec       direct calls of the gateway's trading methods       *)
(*   ListingSpec       one request, with the two listings read meanwhile   *)
(*   RunSpec           one request that is left to run (weak fairness)     *)
(***************************************************************************)
EXTENDS Integers, Sequences, FiniteSets, TLC

\* ------------------------------------------------------------------ bounds

MaxAgents == 2
MaxReqs == 2
MaxOrders == 2
MaxRegs == 2
MaxTrades == 3

AgentIds == 1..MaxAgents
Reqs == 1..MaxReqs
Regs == 1..MaxRegs

\* The order in which the exchange lists the coins of an account.
SymbolOrder == <<"BTC", "ETH">>
Symbols == {SymbolOrder[i] : i \in 1..Len(SymbolOrder)}

\* deposit_amount of a stored agent, and the account values the exchange reports.
Deposits == {0, 1000}
AccountValues == {800, 1500}

\* Mid prices, in ten-thousandths of a unit of account: 100.00, and 0.014, a
\* price below a cent and a half.
MidPrices == {1000000}
LowMidPrices == {140}

\* ---------------------------------------------------------------- optionals

None == <<>>
Some(v) == <<v>>
IsSome(o) == o # <<>>
Get(o) == o[1]

Abs(x) == IF x < 0 THEN -x ELSE x

RECURSIVE GCD(_, _)
GCD(a, b) == IF b = 0 THEN a ELSE GCD(b, a % b)

\* The fraction n/d (d > 0) in lowest terms.
Rat(n, d) == LET g == GCD(Abs(n), d) IN [num |-> n \div g, den |-> d \div g]

\* ------------------------------------------------------------- credentials

\* An API key: its first three characters and the random token after them.
ApiKey(prefix, token) == [prefix |-> prefix, token |-> token]

\* hashlib.sha256(api_key.encode()).hexdigest(): one-way and collision-free.
sha256(key) == [digest |-> <<key.prefix, key.token>>]

\* The key issued to agent i; token 0 is a well-formed key of no agent.
KeyOf(i) == ApiKey("rc_", i)

\* The X-API-Key header of a request: absent, badly formed, unknown, or the key
\* of agent 1.  The requests are those of one agent and of strangers; the other
\* agents' rows are in the table and no request is made for them.
KeyHeaders == {None, Some(ApiKey("xx_", 1)), Some(KeyOf(0)), Some(KeyOf(1))}

\* ------------------------------------------------------------ ledger store

Statuses == {"pending_deposit", "active", "closed"}

\* The row create_agent inserts: the closure columns are not in its INSERT.
AgentRow(id, deposit, status) ==
    [id |-> id, name |-> id, wallet_address |-> id, private_key_encrypted |-> id,
     api_key_hash |-> sha256(KeyOf(id)), deposit_amount |-> deposit,
     status |-> status, closed_at |-> None, final_equity |-> None,
     final_pnl |-> None, final_pnl_pct |-> None, withdrawal_tx |-> None]

\* SELECT * FROM agents WHERE api_key_hash = ? ... fetchone(): the first match.
get_agent_by_api_key_hash(tbl, h) ==
    LET hits == {i \in DOMAIN tbl : tbl[i].api_key_hash = h}
    IN IF hits = {} THEN None
       ELSE Some(tbl[CHOOSE i \in hits : \A j \in hits : i <= j])

\* The update writing every keyword argument, None too: a full replace.
update_agent_status_replace(tbl, agent_id, status, kwargs) ==
    [i \in DOMAIN tbl |->
        IF tbl[i].id = agent_id
        THEN [f \in DOMAIN tbl[i] |->
                IF f = "status" THEN status
                ELSE IF f \in DOMAIN kwargs THEN kwargs[f]
                ELSE tbl[i][f]]
        ELSE tbl[i]]

\* The update with final_equity written to deposit_amount as well.
update_agent_status_over_deposit(tbl, agent_id, status, kwargs) ==
    [i \in DOMAIN tbl |->
        IF tbl[i].id = agent_id
        THEN [f \in DOMAIN tbl[i] |->
                IF f = "status" THEN status
                ELSE IF f \in DOMAIN kwargs /\ kwargs[f] # None THEN kwargs[f]
                ELSE IF f = "deposit_amount" /\ "final_equity" \in DOMAIN kwargs
                        /\ kwargs["final_equity"] # None
                THEN Get(kwargs["final_equity"])
                ELSE tbl[i][f]]
        ELSE tbl[i]]

\* UPDATE agents SET status = ?, <each kwarg that is not None> WHERE id = ?
update_agent_status(tbl, agent_id, status, kwargs) ==
    [i \in DOMAIN tbl |->
        IF tbl[i].id = agent_id
        THEN [f \in DOMAIN tbl[i] |->
                IF f = "status" THEN status
                ELSE IF f \in DOMAIN kwargs /\ kwargs[f] # None THEN kwargs[f]
                ELSE tbl[i][f]]
        ELSE tbl[i]]

\* -------------------------------------------------------- exchange (oracle)

\* szi of every coin of an account, as the exchange reports it.
PositionMaps ==
    {f \in [Symbols -> {-1, 0, 1}] : f["BTC"] >= 0 /\ f["ETH"] <= 0}
Flat == [s \in Symbols |-> 0]

\* info.user_state(address): raises, or returns the positions and the margin
\* summary (accountValue may be missing from it).
UserState(raised, szi, av) == [raised |-> raised, szi |-> szi, accountValue |-> av]
UserStates ==
    {UserState(TRUE, Flat, None)} \cup
    {UserState(FALSE, f, av) : f \in PositionMaps,
                               av \in {None} \cup {Some(v) : v \in AccountValues}}
\* The responses that differ in what get_positions reads.
PositionStates == {u \in UserStates : u.accountValue = None}
\* The responses that differ in what get_balance reads.
BalanceStates == {u \in UserStates : u.szi = Flat}

\* info.all_mids(): raises, lacks the coin, or gives its mid price.
Mids(raised, mid) == [raised |-> raised, mid |-> mid]
MidsResponses ==
    {Mids(TRUE, None), Mids(FALSE, None)} \cup {Mids(FALSE, Some(m)) : m \in MidPrices}

\* exchange.order(...): raises, or answers "filled", "resting", "other" (status
\* ok, neither filled nor resting) or "err" (status not ok).
OrderResponses == {"raise", "filled", "resting", "other", "err"}

\* info.open_orders(address): raises, or lists the open orders.
OpenOrder(i) == [oid |-> i, coin |-> SymbolOrder[((i - 1) % Len(SymbolOrder)) + 1]]
OpenOrders(raised, n) == [raised |-> raised, orders |-> [i \in 1..n |-> OpenOrder(i)]]
OpenOrdersResponses == {OpenOrders(TRUE, 0)} \cup {OpenOrders(FALSE, n) : n \in 0..MaxOrders}

\* exchange.cancel(...) and exchange.update_leverage(...): raise, "ok" or "err".
AckResponses == {"raise", "ok", "err"}

\* One remote call, as the exchange sees it.
Call(op) == [op |-> op, symbol |-> "", is_buy |-> FALSE, sz |-> 0, px |-> 0, tif |-> ""]
OrderCall(symbol, is_buy, sz, px, tif) ==
    [op |-> "order", symbol |-> symbol, is_buy |-> is_buy, sz |-> sz, px |-> px, tif |-> tif]

\* ------------------------------------------------------- exchange gateway

\* What a gateway method did: it raised or returned value, after these remote calls.
Returned(value, calls) == [raised |-> FALSE, value |-> value, calls |-> calls]
Raised(value, calls) == [raised |-> TRUE, value |-> value, calls |-> calls]

OrderResult(success, message, filled_size) ==
    [success |-> success, message |-> message, filled_size |-> filled_size]

\* AgentTrader.get_balance
get_balance(state) ==
    IF state.raised THEN Raised(0, <<Call("user_state")>>)
    ELSE Returned(IF IsSome(state.accountValue) THEN Get(state.accountValue) ELSE 0,
                  <<Call("user_state")>>)

\* The PositionInfo list get_positions builds: the coins whose szi is not 0.
PositionList(szi) ==
    SelectSeq([i \in 1..Len(SymbolOrder) |->
                  [symbol |-> SymbolOrder[i], size |-> szi[SymbolOrder[i]]]],
              LAMBDA p : p.size # 0)

\* AgentTrader.get_positions
get_positions(state) ==
    IF state.raised THEN Raised(<<>>, <<Call("user_state")>>)
    ELSE Returned(PositionList(state.szi), <<Call("user_state")>>)

\* n/d rounded to the nearest integer.
Round2(n, d) == (2 * n + d) \div (2 * d)

\* mid * (1 + slippage) for a buy, mid * (1 - slippage) for a sell, slippage
\* 0.05, then round(limit_price, 2): a whole number of hundredths, which is 100
\* ten-thousandths each.
LimitPrice(mid, is_buy) ==
    IF is_buy THEN 100 * Round2(mid * 105, 10000) ELSE 100 * Round2(mid * 95, 10000)

\* AgentTrader.market_order: every remote failure is caught and returned.
market_order(symbol, side, size, mids, order) ==
    LET is_buy == (side = "buy")
        px == LimitPrice(Get(mids.mid), is_buy)
        sent == <<Call("all_mids"), OrderCall(symbol, is_buy, size, px, "Ioc")>>
    IN IF mids.raised THEN Returned(OrderResult(FALSE, "Error", 0), <<Call("all_mids")>>)
       ELSE IF mids.mid = None
       THEN Returned(OrderResult(FALSE, "Unknown symbol", 0), <<Call("all_mids")>>)
       ELSE IF order = "raise" THEN Returned(OrderResult(FALSE, "Error", 0), sent)
       ELSE IF order = "filled" THEN Returned(OrderResult(TRUE, "Order filled", size), sent)
       ELSE IF order = "resting"
       THEN Returned(OrderResult(TRUE, "Order placed (partial fill or resting)", 0), sent)
       ELSE IF order = "other" THEN Returned(OrderResult(FALSE, "Order not filled", 0), sent)
       ELSE Returned(OrderResult(FALSE, "Order failed", 0), sent)

\* AgentTrader.limit_order
limit_order(symbol, side, size, price, order) ==
    LET sent == <<OrderCall(symbol, side = "buy", size, price, "Gtc")>>
    IN IF order = "raise" THEN Returned(OrderResult(FALSE, "Error", 0), sent)
       ELSE IF order = "resting" THEN Returned(OrderResult(TRUE, "Limit order placed", 0), sent)
       ELSE IF order = "filled"
       THEN Returned(OrderResult(TRUE, "Order filled immediately", size), sent)
       ELSE IF order = "other" THEN Returned(OrderResult(FALSE, "Unexpected response", 0), sent)
       ELSE Returned(OrderResult(FALSE, "Order failed", 0), sent)

\* AgentTrader.close_position: get_positions is called outside any try.
close_position(symbol, state, mids, order) ==
    LET got == get_positions(state)
        mine == SelectSeq(got.value, LAMBDA p : p.symbol = symbol)
    IN IF got.raised THEN Raised(OrderResult(FALSE, "", 0), got.calls)
       ELSE IF mine = <<>>
       THEN Returned(OrderResult(FALSE, "No position", 0), got.calls)
       ELSE LET side == IF mine[1].size > 0 THEN "sell" ELSE "buy"
                placed == market_order(symbol, side, Abs(mine[1].size), mids, order)
            IN Returned(placed.value, got.calls \o placed.calls)

\* AgentTrader.cancel_order
cancel_order(symbol, order_id, ack) ==
    Returned(ack = "ok", <<[Call("cancel") EXCEPT !.symbol = symbol, !.sz = order_id]>>)

RECURSIVE CancelEachUntilFailure(_, _, _)
\* The loop leaving at the first cancellation that fails.
CancelEachUntilFailure(orders, acks, i) ==
    IF i > Len(orders) THEN Returned(0, <<>>)
    ELSE LET one == cancel_order(orders[i].coin, orders[i].oid, acks[i])
             rest == CancelEachUntilFailure(orders, acks, i + 1)
         IN IF one.value THEN Returned(1 + rest.value, one.calls \o rest.calls)
            ELSE Returned(0, one.calls)

RECURSIVE CancelEach(_, _, _)
\* The loop of cancel_all_orders over orders[i..]: the count and the calls.
CancelEach(orders, acks, i) ==
    IF i > Len(orders) THEN Returned(0, <<>>)
    ELSE LET one == cancel_order(orders[i].coin, orders[i].oid, acks[i])
             rest == CancelEach(orders, acks, i + 1)
         IN Returned((IF one.value THEN 1 ELSE 0) + rest.value, one.calls \o rest.calls)

\* AgentTrader.cancel_all_orders(symbol): get_open_orders is called outside any try.
cancel_all_orders(symbol, open, acks) ==
    LET wanted == IF IsSome(symbol)
                  THEN SelectSeq(open.orders, LAMBDA o : o.coin = Get(symbol))
                  ELSE open.orders
        done == CancelEach(wanted, acks, 1)
    IN IF open.raised THEN Raised(0, <<Call("open_orders")>>)
       ELSE Returned(done.value, <<Call("open_orders")>> \o done.calls)

\* AgentTrader.set_leverage
set_leverage(symbol, leverage, is_cross, ack) ==
    Returned(ack = "ok",
             <<[Call("update_leverage") EXCEPT !.symbol = symbol, !.sz = leverage,
                                               !.tif = IF is_cross THEN "cross" ELSE "isolated"]>>)

\* ------------------------------------------------------------------- state

VARIABLES
    agents,         \* the agents table: a sequence of rows, in insertion order
    req,            \* per request: the handler's position and its local variables
    exchangeCalls,  \* the remote calls the last step issued, and for which request
    clock,          \* datetime.now(timezone.utc), as a counter
    trades,         \* the trades table: a sequence of rows, in insertion order
    reg,            \* per registration (POST /register): its position and locals
    out             \* the last direct call on the store and what it returned

vars == <<agents, req, exchangeCalls, clock, trades, reg, out>>

\* An HTTP response; HTTPException(status_code, detail) is one with that code.
Response(code, status, detail) ==
    [code |-> code, status |-> status, detail |-> detail, message |-> "",
     final_balance |-> None, final_pnl |-> None]
NoResponse == Response(0, "", <<>>)

\* A request that has not arrived.  key is the X-API-Key header it came with.
\* failed and writes are history, not
\* variables of the handler: the close_position results of step 1 that were not
\* a success, and the update_agent_status calls made.
Idle ==
    [kind |-> "", pc |-> "idle", key |-> None, agent |-> None, order_type |-> "",
     positions |-> <<>>, idx |-> 0,
     positions_closed |-> <<>>, errors |-> <<>>, failed |-> 0,
     final_balance |-> 0, writes |-> 0, resp |-> NoResponse]

NoCalls == [req |-> 0, calls |-> <<>>]
CallsOf(r, calls) == IF calls = <<>> THEN NoCalls ELSE [req |-> r, calls |-> calls]

\* The rows the store holds when the requests arrive: create_agent has inserted
\* them, as pending_deposit (registration) or as active (deposit confirmed).
\* Agent 1 is any such row; the others are active with a deposit of 1000.
InitialTables ==
    {t \in [AgentIds -> [deposit : Deposits, status : {"pending_deposit", "active"}]] :
        \A i \in AgentIds : i > 1 => t[i].status = "active" /\ t[i].deposit = 1000}

\* A registration that has not arrived; error is the message the form is shown
\* again with, agent and api_key what the page of a registered agent shows.
NoRegistration ==
    [pc |-> "idle", name |-> "", deposit_amount |-> 0, error |-> <<>>,
     agent |-> None, api_key |-> None]

\* No direct call on the store has been made.
NoResult == [op |-> "", arg |-> None, value |-> None]

\* No request, no registration and no direct call yet; the trades table empty.
Quiet ==
    /\ req = [r \in Reqs |-> Idle]
    /\ exchangeCalls = NoCalls
    /\ clock = 1
    /\ trades = <<>>
    /\ reg = [g \in Regs |-> NoRegistration]
    /\ out = NoResult

Init ==
    /\ \E t \in InitialTables :
          agents = [i \in AgentIds |-> AgentRow(i, t[i].deposit, t[i].status)]
    /\ Quiet

\* Requests are interchangeable: they arrive in the order of their numbers.
Arrives(r) ==
    /\ req[r].pc = "idle"
    /\ \A q \in Reqs : q < r => req[q].pc # "idle"

\* The handler of r ends with this response.
Ends(r, kind, resp) ==
    [req[r] EXCEPT !.kind = kind, !.pc = "done", !.resp = resp, !.positions = <<>>, !.idx = 0]

\* ---------------------------------------------------------- authentication

\* The format check without the prefix test.
BadKeyFormatMissingOnly(header) == header = None

\* `not api_key or not api_key.startswith("rc_")`
BadKeyFormat(header) == header = None \/ Get(header).prefix # "rc_"

\* get_agent_from_api_key: the agent, or the 401 it raises.
get_agent_from_api_key(tbl, header) ==
    IF BadKeyFormat(header)
    THEN [agent |-> None, resp |-> Response(401, "", <<"Invalid API key format">>)]
    ELSE LET agent == get_agent_by_api_key_hash(tbl, sha256(Get(header)))
         IN IF agent = None
            THEN [agent |-> None, resp |-> Response(401, "", <<"Invalid API key">>)]
            ELSE [agent |-> agent, resp |-> NoResponse]

\* ----------------------------------------------------- POST /api/close-account

\* The closed check comparing with a status no row ever has.
AlreadyClosedMisspelt(agent) == agent.status = "close"

\* `if agent.status == "closed"`
AlreadyClosed(agent) == agent.status = "closed"

\* Authentication and the closed check, up to create_trader.
api_close_account_begin(r, header) ==
    /\ Arrives(r)
    /\ LET auth == get_agent_from_api_key(agents, header)
       IN req' = [req EXCEPT ![r] = [(
            IF auth.agent = None THEN Ends(r, "close_account", auth.resp)
            ELSE IF AlreadyClosed(Get(auth.agent))
            THEN [Ends(r, "close_account", Response(400, "", <<"Account already closed.">>))
                    EXCEPT !.agent = auth.agent]
            ELSE [req[r] EXCEPT !.kind = "close_account", !.pc = "positions",
                                !.agent = auth.agent])
              EXCEPT !.key = header]]
    /\ exchangeCalls' = NoCalls
    /\ UNCHANGED <<agents, clock, trades, reg, out>>

\* An exception no handler catches: the framework answers 500.
Unhandled(r) == Ends(r, req[r].kind, Response(500, "", <<"Internal Server Error">>))

\* 1. positions = trader.get_positions()
api_close_account_positions(r) ==
    /\ req[r].kind = "close_account" /\ req[r].pc = "positions"
    /\ \E state \in PositionStates :
          LET got == get_positions(state)
          IN /\ req' = [req EXCEPT ![r] =
                   IF got.raised THEN Unhandled(r)
                   ELSE [req[r] EXCEPT !.positions = IF got.value = <<>> THEN <<>> ELSE got.value,
                                       !.idx = IF got.value = <<>> THEN 0 ELSE 1,
                                       !.pc = IF got.value = <<>> THEN "cancel" ELSE "closing"]]
             /\ exchangeCalls' = CallsOf(r, got.calls)
    /\ UNCHANGED <<agents, clock, trades, reg, out>>

\* The answers of the exchange to the remote calls of one close_position(symbol);
\* a call that is not made has the first answer of its kind.
CloseOracles(symbol) ==
    {o \in PositionStates \X MidsResponses \X OrderResponses :
        /\ (o[1].raised \/ o[1].szi[symbol] = 0) => o[2] = Mids(TRUE, None)
        /\ (o[2].raised \/ o[2].mid = None) => o[3] = "raise"}

\* `if close_result.success:` positions_closed.append(...) `else:` errors.append(...)
RecordClose(results, pos, close_result) ==
    IF close_result.success
    THEN [results EXCEPT !.positions_closed = Append(@, pos)]
    ELSE [results EXCEPT !.errors = Append(@, pos.symbol)]

\* One turn of `for pos in positions`: close_position, then record the outcome.
api_close_account_close(r) ==
    /\ req[r].kind = "close_account" /\ req[r].pc = "closing"
    /\ LET pos == req[r].positions[req[r].idx]
           last == req[r].idx = Len(req[r].positions)
           next == [req[r] EXCEPT !.idx = IF last THEN 0 ELSE @ + 1,
                                  !.positions = IF last THEN <<>> ELSE @,
                                  !.pc = IF last THEN "cancel" ELSE "closing"]
       IN IF pos.size = 0
          THEN req' = [req EXCEPT ![r] = next] /\ exchangeCalls' = NoCalls
          ELSE \E o \in CloseOracles(pos.symbol) :
                  LET res == close_position(pos.symbol, o[1], o[2], o[3])
                  IN /\ req' = [req EXCEPT ![r] =
                           IF res.raised THEN Unhandled(r)
                           ELSE [RecordClose(next, pos, res.value) EXCEPT
                                    !.failed = IF res.value.success THEN @ ELSE @ + 1]]
                     /\ exchangeCalls' = CallsOf(r, res.calls)
    /\ UNCHANGED <<agents, clock, trades, reg, out>>

\* 2. cancelled_count = trader.cancel_all_orders(); the count is only echoed
\* in the response and is not kept here.
api_close_account_cancel(r) ==
    /\ req[r].kind = "close_account" /\ req[r].pc = "cancel"
    /\ \E open \in OpenOrdersResponses, acks \in [1..MaxOrders -> AckResponses] :
          LET res == cancel_all_orders(None, open, acks)
          IN /\ req' = [req EXCEPT ![r] =
                   IF res.raised THEN Unhandled(r)
                   ELSE [req[r] EXCEPT !.pc = "balance"]]
             /\ exchangeCalls' = CallsOf(r, res.calls)
    /\ UNCHANGED <<agents, clock, trades, reg, out>>

\* The balance fetched without waiting for the orders to be cancelled.
api_close_account_balance_early(r) ==
    /\ req[r].kind = "close_account" /\ req[r].pc \in {"cancel", "balance"}
    /\ \E state \in BalanceStates :
          LET res == get_balance(state)
          IN /\ req' = [req EXCEPT ![r] =
                   IF res.raised THEN Unhandled(r)
                   ELSE [req[r] EXCEPT !.final_balance = res.value, !.pc = "write"]]
             /\ exchangeCalls' = CallsOf(r, res.calls)
    /\ UNCHANGED <<agents, clock, trades, reg, out>>

\* 3. balance_info = trader.get_balance(); final_balance = its account_value
api_close_account_balance(r) ==
    /\ req[r].kind = "close_account" /\ req[r].pc = "balance"
    /\ \E state \in BalanceStates :
          LET res == get_balance(state)
          IN /\ req' = [req EXCEPT ![r] =
                   IF res.raised THEN Unhandled(r)
                   ELSE [req[r] EXCEPT !.final_balance = res.value, !.pc = "write"]]
             /\ exchangeCalls' = CallsOf(r, res.calls)
    /\ UNCHANGED <<agents, clock, trades, reg, out>>

\* `deposit = agent.deposit_amount if agent.deposit_amount else 0`
DepositOf(agent) == IF agent.deposit_amount # 0 THEN agent.deposit_amount ELSE 0

\* The difference taken the wrong way round.
FinalPnlSwapped(final_balance, deposit) == deposit - final_balance

\* `final_pnl = final_balance - deposit`
FinalPnl(final_balance, deposit) == final_balance - deposit

\* `final_pnl_pct = (final_pnl / deposit * 100) if deposit > 0 else 0`
FinalPnlPct(final_pnl, deposit) ==
    IF deposit > 0
    THEN LET q == Rat(final_pnl, deposit) IN Rat(q.num * 100, q.den)
    ELSE Rat(0, 1)

\* The keyword arguments of the update_agent_status call of step 5.
ClosureFields(final_balance, final_pnl, final_pnl_pct, now) ==
    [final_equity |-> Some(final_balance), final_pnl |-> Some(final_pnl),
     final_pnl_pct |-> Some(final_pnl_pct), closed_at |-> Some(now)]

\* The two answers exchanged.
ClosureStatusInverted(errors) == IF errors # <<>> THEN "ok" ELSE "partial"

\* `"partial" if results["errors"] else "ok"`
ClosureStatus(errors) == IF errors # <<>> THEN "partial" ELSE "ok"

\* 5. update_agent_status(agent.id, "closed", ...), and the response.
api_close_account_write(r) ==
    /\ req[r].kind = "close_account" /\ req[r].pc = "write"
    /\ LET agent == Get(req[r].agent)
           deposit == DepositOf(agent)
           final_pnl == FinalPnl(req[r].final_balance, deposit)
           final_pnl_pct == FinalPnlPct(final_pnl, deposit)
       IN /\ agents' = update_agent_status(agents, agent.id, "closed",
                 ClosureFields(req[r].final_balance, final_pnl, final_pnl_pct, clock))
          /\ req' = [req EXCEPT ![r] =
                [Ends(r, "close_account",
                      [Response(200, ClosureStatus(req[r].errors), <<>>)
                         EXCEPT !.final_balance = Some(req[r].final_balance),
                                !.final_pnl = Some(final_pnl)])
                   EXCEPT !.writes = @ + 1]]
    /\ clock' = clock + 1
    /\ exchangeCalls' = NoCalls
    /\ UNCHANGED <<trades, reg, out>>

\* ------------------------------------------------------------ POST /api/order

\* `if agent.status != "active"`
NotActive(agent) == agent.status # "active"

\* The JSON bodies of an order request; an absent key is None.  A stop order
\* carries a trigger_price, as the application's SKILL_MD shows it, and no
\* other order does; the handler reads no such key.
OrderBodies ==
    {[symbol |-> symbol, side |-> side, size |-> size, price |-> price, type |-> type,
      trigger_price |-> IF type = Some("stop") THEN Some(950000) ELSE None] :
        symbol \in {None, Some("BTC")},
        side \in {None, Some("buy"), Some("sell"), Some("hold")},
        size \in {None, Some(1)},
        price \in {None, Some(900000)},
        type \in {None, Some("market"), Some("limit"), Some("stop")}}

\* The answers of the exchange to the remote calls of one market_order.
MarketOracles ==
    {o \in MidsResponses \X OrderResponses : (o[1].raised \/ o[1].mid = None) => o[2] = "raise"}

\* Authentication and the status check, up to `await request.json()`.
api_place_order_begin(r, header) ==
    /\ Arrives(r)
    /\ LET auth == get_agent_from_api_key(agents, header)
       IN req' = [req EXCEPT ![r] = [(
            IF auth.agent = None THEN Ends(r, "order", auth.resp)
            ELSE IF NotActive(Get(auth.agent))
            THEN [Ends(r, "order",
                       Response(400, "", <<"Agent is", Get(auth.agent).status,
                                           "not active. Cannot trade.">>))
                    EXCEPT !.agent = auth.agent]
            ELSE [req[r] EXCEPT !.kind = "order", !.pc = "body", !.agent = auth.agent])
              EXCEPT !.key = header]]
    /\ exchangeCalls' = NoCalls
    /\ UNCHANGED <<agents, clock, trades, reg, out>>

\* The response built from an OrderResult.
OrderResponse(result) ==
    [Response(200, IF result.success THEN "ok" ELSE "error", <<>>)
        EXCEPT !.message = result.message]

\* The handler of an order request ends with this response.
Ordered(r, order_type, resp) == [Ends(r, "order", resp) EXCEPT !.order_type = order_type]

\* The handler answers with the outcome of the order it placed.
Placed(r, order_type, placed) ==
    /\ req' = [req EXCEPT ![r] = Ordered(r, order_type, OrderResponse(placed.value))]
    /\ exchangeCalls' = CallsOf(r, placed.calls)

\* The body is validated and the order placed: a market order when the type is
\* "market" (the default) or no price is given, a limit order otherwise.
api_place_order_body(r) ==
    /\ req[r].kind = "order" /\ req[r].pc = "body"
    /\ \E body \in OrderBodies :
          LET order_type == IF body.type = None THEN "market" ELSE Get(body.type)
              market == order_type = "market" \/ body.price = None
          IN IF body.symbol = None \/ body.side = None \/ body.size = None
             THEN /\ req' = [req EXCEPT ![r] = Ordered(r, order_type,
                        Response(400, "", <<"Missing required fields: symbol, side, size">>))]
                  /\ exchangeCalls' = NoCalls
             ELSE IF Get(body.side) \notin {"buy", "sell"}
             THEN /\ req' = [req EXCEPT ![r] = Ordered(r, order_type,
                        Response(400, "", <<"side must be 'buy' or 'sell'">>))]
                  /\ exchangeCalls' = NoCalls
             ELSE IF market
             THEN \E o \in MarketOracles :
                     Placed(r, order_type, market_order(Get(body.symbol), Get(body.side), Get(body.size),
                                            o[1], o[2]))
             ELSE \E order \in OrderResponses :
                     Placed(r, order_type, limit_order(Get(body.symbol), Get(body.side), Get(body.size),
                                           Get(body.price), order))
    /\ UNCHANGED <<agents, clock, trades, reg, out>>

\* ------------------------------------------------------------ POST /api/close

CloseBodies == [symbol : {None} \cup {Some(s) : s \in Symbols}]

api_close_position_begin(r, header) ==
    /\ Arrives(r)
    /\ LET auth == get_agent_from_api_key(agents, header)
       IN req' = [req EXCEPT ![r] = [(
            IF auth.agent = None THEN Ends(r, "close", auth.resp)
            ELSE IF NotActive(Get(auth.agent))
            THEN [Ends(r, "close",
                       Response(400, "", <<"Agent is", Get(auth.agent).status, "not active.">>))
                    EXCEPT !.agent = auth.agent]
            ELSE [req[r] EXCEPT !.kind = "close", !.pc = "body", !.agent = auth.agent])
              EXCEPT !.key = header]]
    /\ exchangeCalls' = NoCalls
    /\ UNCHANGED <<agents, clock, trades, reg, out>>

api_close_position_body(r) ==
    /\ req[r].kind = "close" /\ req[r].pc = "body"
    /\ \E body \in CloseBodies :
          IF body.symbol = None
          THEN /\ req' = [req EXCEPT ![r] = Ends(r, "close",
                     Response(400, "", <<"Missing required field: symbol">>))]
               /\ exchangeCalls' = NoCalls
          ELSE \E o \in CloseOracles(Get(body.symbol)) :
                  LET res == close_position(Get(body.symbol), o[1], o[2], o[3])
                  IN /\ req' = [req EXCEPT ![r] =
                           IF res.raised THEN Unhandled(r)
                           ELSE Ends(r, "close", OrderResponse(res.value))]
                     /\ exchangeCalls' = CallsOf(r, res.calls)
    /\ UNCHANGED <<agents, clock, trades, reg, out>>

\* --------------------------------------------------------- POST /api/leverage

LeverageBodies ==
    [symbol : {None, Some("BTC")},
     leverage : {None, Some(5)},
     margin_type : {None, Some("cross"), Some("isolated"), Some("portfolio")}]

\* Authentication, up to `await request.json()`: the status is not looked at.
api_set_leverage_begin(r, header) ==
    /\ Arrives(r)
    /\ LET auth == get_agent_from_api_key(agents, header)
       IN req' = [req EXCEPT ![r] = [(
            IF auth.agent = None THEN Ends(r, "leverage", auth.resp)
            ELSE [req[r] EXCEPT !.kind = "leverage", !.pc = "body", !.agent = auth.agent])
              EXCEPT !.key = header]]
    /\ exchangeCalls' = NoCalls
    /\ UNCHANGED <<agents, clock, trades, reg, out>>

api_set_leverage_body(r) ==
    /\ req[r].kind = "leverage" /\ req[r].pc = "body"
    /\ \E body \in LeverageBodies, ack \in AckResponses :
          LET margin_type == IF body.margin_type = None THEN "cross" ELSE Get(body.margin_type)
              res == set_leverage(Get(body.symbol), Get(body.leverage),
                                  margin_type = "cross", ack)
          IN IF body.symbol = None \/ body.leverage = None
             THEN /\ req' = [req EXCEPT ![r] = Ends(r, "leverage",
                        Response(400, "", <<"Missing required fields: symbol, leverage">>))]
                  /\ exchangeCalls' = NoCalls
             ELSE IF margin_type \notin {"cross", "isolated"}
             THEN /\ req' = [req EXCEPT ![r] = Ends(r, "leverage",
                        Response(400, "", <<"margin_type must be 'cross' or 'isolated'">>))]
                  /\ exchangeCalls' = NoCalls
             ELSE /\ req' = [req EXCEPT ![r] = Ends(r, "leverage",
                        [Response(200, IF res.value THEN "ok" ELSE "error", <<>>)
                           EXCEPT !.message = IF res.value THEN "Leverage set"
                                              ELSE "Failed to set leverage"])]
                  /\ exchangeCalls' = CallsOf(r, res.calls)
    /\ UNCHANGED <<agents, clock, trades, reg, out>>

\* ------------------------------------------------ DELETE /api/order/{order_id}

\* The application declares no route for this method and path (the only route
\* under /api/order is the POST): the framework answers 404 Not Found, and no
\* code of the application runs.
api_cancel_order(r, header) ==
    /\ Arrives(r)
    /\ req' = [req EXCEPT ![r] =
          [Ends(r, "cancel_order", Response(404, "", <<"Not Found">>))
             EXCEPT !.key = header]]
    /\ exchangeCalls' = NoCalls
    /\ UNCHANGED <<agents, clock, trades, reg, out>>

\* -------------------------------------------------------- store: the agents

\* An Agent as create_agent is given it; the closure fields are not inserted.
Agent(id, name, wallet_address, private_key, api_key_hash, deposit_amount, status) ==
    [id |-> id, name |-> name, wallet_address |-> wallet_address,
     private_key_encrypted |-> private_key, api_key_hash |-> api_key_hash,
     deposit_amount |-> deposit_amount, status |-> status, closed_at |-> None,
     final_equity |-> None, final_pnl |-> None, final_pnl_pct |-> None,
     withdrawal_tx |-> None]

\* The constraints of the agents table: id PRIMARY KEY, wallet_address UNIQUE.
\* Neither name nor api_key_hash is declared UNIQUE.
AgentConflict(tbl, agent) ==
    \E i \in DOMAIN tbl :
        tbl[i].id = agent.id \/ tbl[i].wallet_address = agent.wallet_address

\* create_agent: the INSERT raises sqlite3.IntegrityError on a conflict and
\* adds the row otherwise.
create_agent(tbl, agent) ==
    IF AgentConflict(tbl, agent) THEN [raised |-> TRUE, table |-> tbl]
    ELSE [raised |-> FALSE, table |-> Append(tbl, agent)]

\* SELECT * FROM agents WHERE name = ? ... fetchone(): the first match.
get_agent_by_name(tbl, name) ==
    LET hits == {i \in DOMAIN tbl : tbl[i].name = name}
    IN IF hits = {} THEN None
       ELSE Some(tbl[CHOOSE i \in hits : \A j \in hits : i <= j])

\* ------------------------------------------------------------ POST /register

\* A name of 33 characters.
LongName == "abcdefghijklmnopqrstuvwxyz0123456"

\* The forms submitted: a name too short, too long, a deposit too small, too
\* large, and the valid ones at both ends of the deposit range.
Forms ==
    {[name |-> "ab", deposit_amount |-> 10], [name |-> LongName, deposit_amount |-> 10],
     [name |-> "bot", deposit_amount |-> 9], [name |-> "bot", deposit_amount |-> 101],
     [name |-> "bot", deposit_amount |-> 10], [name |-> "bot", deposit_amount |-> 100]}

\* What registration g draws: uuid.uuid4(), Account.create() and
\* secrets.token_urlsafe(32) give values no earlier draw and no direct call gave.
Drawn(g) == MaxAgents + g
Wallet(n) == [address |-> n]
PrivateKey(n) == [secret |-> n]

\* The name check accepting 33 characters.
BadNameOffByOne(name) == Len(name) < 3 \/ Len(name) > 33

\* `len(name) < 3 or len(name) > 32`
BadName(name) == Len(name) < 3 \/ Len(name) > 32

\* `deposit_amount < 10 or deposit_amount > 100`
BadDeposit(deposit_amount) == deposit_amount < 10 \/ deposit_amount > 100

\* The form is answered with this error.
Refused(g, form, error) ==
    [reg[g] EXCEPT !.pc = "done", !.name = form.name,
                   !.deposit_amount = form.deposit_amount, !.error = error]

\* Validation and the name check, up to get_agent_by_name.
register_agent_begin(g, form) ==
    /\ reg[g].pc = "idle"
    /\ \A h \in Regs : h < g => reg[h].pc # "idle"
    /\ reg' = [reg EXCEPT ![g] =
          IF BadName(form.name)
          THEN Refused(g, form, <<"Agent name must be 3-32 characters.">>)
          ELSE IF BadDeposit(form.deposit_amount)
          THEN Refused(g, form, <<"Deposit must be between $10 and $100.">>)
          ELSE IF get_agent_by_name(agents, form.name) # None
          THEN Refused(g, form, <<"Agent name '", form.name, "' is already taken.">>)
          ELSE [reg[g] EXCEPT !.pc = "create", !.name = form.name,
                              !.deposit_amount = form.deposit_amount]]
    /\ UNCHANGED <<agents, req, exchangeCalls, clock, trades, out>>

\* The credential stored as it is issued.
StoredCredentialRaw(api_key) == api_key

\* `api_key_hash = hashlib.sha256(api_key.encode()).hexdigest()`
StoredCredential(api_key) == sha256(api_key)

\* The wallet and the API key are generated, the agent is created as
\* pending_deposit and shown with its key.
register_agent_create(g) ==
    /\ reg[g].pc = "create"
    /\ LET api_key == ApiKey("rc_", Drawn(g))
           agent == Agent(Drawn(g), reg[g].name, Wallet(Drawn(g)), PrivateKey(Drawn(g)),
                          StoredCredential(api_key), reg[g].deposit_amount,
                          "pending_deposit")
           made == create_agent(agents, agent)
       IN /\ agents' = made.table
          /\ reg' = [reg EXCEPT ![g] =
                IF made.raised
                THEN [reg[g] EXCEPT !.pc = "done", !.error = <<"Internal Server Error">>]
                ELSE [reg[g] EXCEPT !.pc = "done", !.agent = Some(agent),
                                    !.api_key = Some(api_key)]]
    /\ UNCHANGED <<req, exchangeCalls, clock, trades, out>>

\* The agents given to create_agent directly, as the tests' fixture does: active,
\* with a deposit of 1000.
DirectAgents ==
    {Agent(id, name, Wallet(w), PrivateKey(w), sha256(KeyOf(k)), 1000, "active") :
        id \in AgentIds, name \in {"bot", "cat"}, w \in AgentIds, k \in AgentIds}

\* create_agent(agent) called directly.
create_agent_call(agent) ==
    /\ agents' = create_agent(agents, agent).table
    /\ UNCHANGED <<req, exchangeCalls, clock, trades, reg, out>>

RegistrationInit == agents = <<>> /\ Quiet

RegistrationNext ==
    \/ \E g \in Regs, form \in Forms : register_agent_begin(g, form)
    \/ \E g \in Regs : register_agent_create(g)
    \/ \E agent \in DirectAgents : create_agent_call(agent)

\* Registrations and direct create_agent calls on an empty store.
RegistrationSpec == RegistrationInit /\ [][RegistrationNext]_vars

\* -------------------------------------------------------- store: the trades

\* A Trade as record_trade is given it; the id is the store's to give.
Trade(agent_id, realized_pnl) ==
    [id |-> 0, agent_id |-> agent_id, symbol |-> "BTC", side |-> "buy", size |-> 1,
     price |-> 10000, realized_pnl |-> realized_pnl, timestamp |-> 0]

\* The trades recorded: of agent 1 and of an id no agent has, with a loss, no
\* profit and a profit.
RealizedPnls == {-5, 0, 5}
TradeInputs == {Trade(a, p) : a \in {1, MaxAgents + 1}, p \in RealizedPnls}

\* PRAGMA foreign_keys of the connection get_db opens: it is never set, and
\* SQLite's default is OFF, so FOREIGN KEY (agent_id) is not enforced.
foreign_keys == FALSE

\* id INTEGER PRIMARY KEY AUTOINCREMENT: one more than the largest id given.
NextTradeId(tbl) == IF tbl = <<>> THEN 1 ELSE tbl[Len(tbl)].id + 1

\* record_trade: the INSERT, raising on a foreign key violation if enforced.
record_trade(tbl, agentTbl, trade) ==
    IF foreign_keys /\ \A i \in DOMAIN agentTbl : agentTbl[i].id # trade.agent_id
    THEN [raised |-> TRUE, table |-> tbl]
    ELSE [raised |-> FALSE,
          table |-> Append(tbl, [trade EXCEPT !.id = NextTradeId(tbl)])]

RECURSIVE Total(_)
\* The sum of a sequence of numbers.
Total(xs) == IF xs = <<>> THEN 0 ELSE xs[1] + Total(Tail(xs))

\* SQL SUM over the selected rows: NULL when there is none.
SUM(xs) == IF xs = <<>> THEN None ELSE Some(Total(xs))

\* Python's `x or 0` on a column that may be NULL.
OrZero(x) == IF x = None \/ Get(x) = 0 THEN 0 ELSE Get(x)

\* A trade with no profit counted as a win.
WinningOrFlat(trade) == trade.realized_pnl >= 0

\* `CASE WHEN realized_pnl > 0 THEN 1 ELSE 0 END`
Winning(trade) == trade.realized_pnl > 0

\* get_agent_stats
get_agent_stats(tbl, agent_id) ==
    LET rows == SelectSeq(tbl, LAMBDA t : t.agent_id = agent_id)
        total == OrZero(Some(Len(rows)))
        wins == OrZero(SUM([i \in DOMAIN rows |-> IF Winning(rows[i]) THEN 1 ELSE 0]))
        pnl == OrZero(SUM([i \in DOMAIN rows |-> rows[i].realized_pnl]))
    IN [total_trades |-> total, winning_trades |-> wins,
        win_rate |-> IF total > 0
                     THEN LET q == Rat(wins, total) IN Rat(q.num * 100, q.den)
                     ELSE Rat(0, 1),
        total_pnl |-> pnl]

\* A direct call on the store, its argument and what it returned.
Result(op, arg, value) == [op |-> op, arg |-> Some(arg), value |-> Some(value)]

\* record_trade(trade) called directly.
record_trade_call(trade) ==
    /\ Len(trades) < MaxTrades
    /\ LET made == record_trade(trades, agents, trade)
       IN /\ trades' = made.table
          /\ out' = Result("record_trade", trade, made.raised)
    /\ UNCHANGED <<agents, req, exchangeCalls, clock, reg>>

\* get_agent_stats(agent_id) called directly, for an agent or an id of none.
get_agent_stats_call(agent_id) ==
    /\ out' = Result("get_agent_stats", agent_id, get_agent_stats(trades, agent_id))
    /\ UNCHANGED <<agents, req, exchangeCalls, clock, trades, reg>>

\* The store holds the agents and no trade.
TradesInit ==
    /\ agents = [i \in AgentIds |-> AgentRow(i, 1000, "active")]
    /\ Quiet

TradesNext ==
    \/ \E trade \in TradeInputs : record_trade_call(trade)
    \/ \E agent_id \in 1..(MaxAgents + 1) : get_agent_stats_call(agent_id)

\* Trades recorded and statistics read by direct calls on the store.
TradesSpec == TradesInit /\ [][TradesNext]_vars

\* ------------------------------------------- store: status and the hall of fame

\* The keyword arguments of a direct update_agent_status call: each of
\* final_equity and final_pnl_pct is not passed, passed as None or passed with
\* a value.
EquityArgs == {<<>>, [final_equity |-> None], [final_equity |-> Some(1500)]}
PctArgs ==
    {<<>>, [final_pnl_pct |-> None], [final_pnl_pct |-> Some(Rat(50, 1))],
     [final_pnl_pct |-> Some(Rat(-20, 1))]}
UpdateArgs == {e @@ p : e \in EquityArgs, p \in PctArgs}

\* update_agent_status(agent_id, status, **kwargs) called directly, for an
\* agent or an id of none.
update_agent_status_call(agent_id, status, kwargs) ==
    /\ agents' = update_agent_status(agents, agent_id, status, kwargs)
    /\ out' = Result("update_agent_status",
                     [agent_id |-> agent_id, status |-> status, kwargs |-> kwargs], TRUE)
    /\ UNCHANGED <<req, exchangeCalls, clock, trades, reg>>

\* a < b for two fractions with positive denominators.
Less(a, b) == a.num * b.den < b.num * a.den

\* The rows sorted by final_pnl_pct, lowest first.
RankedAscending(x, y) ==
    \/ x.final_pnl_pct = None
    \/ y.final_pnl_pct # None /\ ~Less(Get(y.final_pnl_pct), Get(x.final_pnl_pct))

\* ORDER BY final_pnl_pct DESC: x may come before y.  SQLite takes NULL for the
\* smallest value, and leaves the order of rows with equal keys open.
Ranked(x, y) ==
    \/ y.final_pnl_pct = None
    \/ x.final_pnl_pct # None /\ ~Less(Get(x.final_pnl_pct), Get(y.final_pnl_pct))

\* get_closed_agents: every result the SELECT may give.
get_closed_agents(tbl) ==
    LET closed == {i \in DOMAIN tbl : tbl[i].status = "closed"}
        n == Cardinality(closed)
        orders == {s \in [1..n -> closed] :
                      /\ \A k, l \in 1..n : k # l => s[k] # s[l]
                      /\ \A k, l \in 1..n : k < l => Ranked(tbl[s[k]], tbl[s[l]])}
    IN {[k \in 1..n |-> tbl[s[k]]] : s \in orders}

\* get_closed_agents() called directly.
get_closed_agents_call ==
    /\ \E rows \in get_closed_agents(agents) :
          out' = Result("get_closed_agents", <<>>, rows)
    /\ UNCHANGED <<agents, req, exchangeCalls, clock, trades, reg>>

\* The SELECT taking every agent that is not closed.
get_active_agents_not_closed(tbl) ==
    LET active == {i \in DOMAIN tbl : tbl[i].status # "closed"}
        n == Cardinality(active)
        orders == {s \in [1..n -> active] : \A k, l \in 1..n : k # l => s[k] # s[l]}
    IN {[k \in 1..n |-> tbl[s[k]]] : s \in orders}

\* get_active_agents: every result the SELECT may give.  The rows are ordered
\* by created_at, a column the rows here do not keep: any order may be theirs.
get_active_agents(tbl) ==
    LET active == {i \in DOMAIN tbl : tbl[i].status = "active"}
        n == Cardinality(active)
        orders == {s \in [1..n -> active] : \A k, l \in 1..n : k # l => s[k] # s[l]}
    IN {[k \in 1..n |-> tbl[s[k]]] : s \in orders}

\* get_active_agents() called directly, as the leaderboard does.
get_active_agents_call ==
    /\ \E rows \in get_active_agents(agents) :
          out' = Result("get_active_agents", <<>>, rows)
    /\ UNCHANGED <<agents, req, exchangeCalls, clock, trades, reg>>

\* The store holds the agents, pending_deposit or active.
StatusInit ==
    /\ \E t \in InitialTables :
          agents = [i \in AgentIds |-> AgentRow(i, t[i].deposit, t[i].status)]
    /\ Quiet

StatusNext ==
    \/ \E agent_id \in 1..(MaxAgents + 1), status \in {"active", "closed"},
          kwargs \in UpdateArgs : update_agent_status_call(agent_id, status, kwargs)
    \/ get_closed_agents_call

\* Statuses set and the hall of fame read by direct calls on the store.
StatusSpec == StatusInit /\ [][StatusNext]_vars

\* ------------------------------------------------- the gateway, called directly

\* The answers of the exchange to the remote calls of one market_order, at a
\* mid price of 100 or of 0.014.
GatewayMarketOracles ==
    MarketOracles \cup {<<Mids(FALSE, Some(m)), order>> : m \in LowMidPrices, order \in OrderResponses}

\* Each call of a gateway method leaves in out its arguments, what the exchange
\* answered, and what the method did.

market_order_call(symbol, side, size, mids, order) ==
    /\ out' = Result("market_order",
                     [symbol |-> symbol, side |-> side, size |-> size, mids |-> mids,
                      order |-> order],
                     market_order(symbol, side, size, mids, order))
    /\ UNCHANGED <<agents, req, exchangeCalls, clock, trades, reg>>

limit_order_call(symbol, side, size, price, order) ==
    /\ out' = Result("limit_order",
                     [symbol |-> symbol, side |-> side, size |-> size, price |-> price,
                      order |-> order],
                     limit_order(symbol, side, size, price, order))
    /\ UNCHANGED <<agents, req, exchangeCalls, clock, trades, reg>>

close_position_call(symbol, state, mids, order) ==
    /\ out' = Result("close_position",
                     [symbol |-> symbol, state |-> state, mids |-> mids, order |-> order],
                     close_position(symbol, state, mids, order))
    /\ UNCHANGED <<agents, req, exchangeCalls, clock, trades, reg>>

cancel_order_call(symbol, order_id, ack) ==
    /\ out' = Result("cancel_order", [symbol |-> symbol, order_id |-> order_id, ack |-> ack],
                     cancel_order(symbol, order_id, ack))
    /\ UNCHANGED <<agents, req, exchangeCalls, clock, trades, reg>>

\* The exchange answers one cancellation for each order the method asks it to cancel.
cancel_all_orders_call(symbol, open, acks) ==
    /\ \A i \in 1..MaxOrders :
          i > (cancel_all_orders(symbol, open, [j \in 1..MaxOrders |-> "ok"]).value) => acks[i] = "ok"
    /\ out' = Result("cancel_all_orders", [symbol |-> symbol, open |-> open, acks |-> acks],
                     cancel_all_orders(symbol, open, acks))
    /\ UNCHANGED <<agents, req, exchangeCalls, clock, trades, reg>>

set_leverage_call(symbol, leverage, is_cross, ack) ==
    /\ out' = Result("set_leverage",
                     [symbol |-> symbol, leverage |-> leverage, is_cross |-> is_cross,
                      ack |-> ack],
                     set_leverage(symbol, leverage, is_cross, ack))
    /\ UNCHANGED <<agents, req, exchangeCalls, clock, trades, reg>>

GatewayNext ==
    \/ \E symbol \in Symbols, side \in {"buy", "sell"}, o \in GatewayMarketOracles :
          market_order_call(symbol, side, 1, o[1], o[2])
    \/ \E symbol \in Symbols, side \in {"buy", "sell"}, order \in OrderResponses :
          limit_order_call(symbol, side, 1, 900000, order)
    \/ \E symbol \in Symbols : \E o \in CloseOracles(symbol) :
          close_position_call(symbol, o[1], o[2], o[3])
    \/ \E symbol \in Symbols, order_id \in 1..MaxOrders, ack \in AckResponses :
          cancel_order_call(symbol, order_id, ack)
    \/ \E symbol \in {None} \cup {Some(c) : c \in Symbols}, open \in OpenOrdersResponses,
          acks \in [1..MaxOrders -> AckResponses] : cancel_all_orders_call(symbol, open, acks)
    \/ \E symbol \in Symbols, leverage \in {5}, is_cross \in BOOLEAN, ack \in AckResponses :
          set_leverage_call(symbol, leverage, is_cross, ack)

\* The methods of one agent's gateway called directly, one call at a time.
GatewaySpec == Init /\ [][GatewayNext]_vars

\* ------------------------------------------------------------ next-state

\* The steps of the request r, whichever endpoint it is made to.
Handlers(r) ==
    \/ \E header \in KeyHeaders : api_close_account_begin(r, header)
    \/ api_close_account_positions(r)
    \/ api_close_account_close(r)
    \/ api_close_account_cancel(r)
    \/ api_close_account_balance(r)
    \/ api_close_account_write(r)
    \/ \E header \in KeyHeaders : api_place_order_begin(r, header)
    \/ api_place_order_body(r)
    \/ \E header \in KeyHeaders : api_close_position_begin(r, header)
    \/ api_close_position_body(r)
    \/ \E header \in KeyHeaders : api_set_leverage_begin(r, header)
    \/ api_set_leverage_body(r)
    \/ \E header \in KeyHeaders : api_cancel_order(r, header)

Next == \E r \in Reqs : Handlers(r)

Spec == Init /\ [][Next]_vars

\* One request, and trades recorded by direct calls meanwhile.
LedgerNext ==
    \/ Handlers(1)
    \/ \E trade \in TradeInputs : record_trade_call(trade)

LedgerSpec == Init /\ [][LedgerNext]_vars

\* One request, and the two listings read meanwhile.
ListingNext ==
    \/ Handlers(1)
    \/ get_active_agents_call
    \/ get_closed_agents_call

ListingSpec == Init /\ [][ListingNext]_vars

\* The steps of the request r after its first: the event loop runs a handler
\* that has started until it returns or raises.
Continues(r) ==
    \/ api_close_account_positions(r)
    \/ api_close_account_close(r)
    \/ api_close_account_cancel(r)
    \/ api_close_account_balance(r)
    \/ api_close_account_write(r)
    \/ api_place_order_body(r)
    \/ api_close_position_body(r)
    \/ api_set_leverage_body(r)

\* One request that is left to run, every exchange call of it returning or raising.
RunSpec == Init /\ [][Handlers(1)]_vars /\ WF_vars(Continues(1))

\* ------------------------------------------------------------------ claims

\* A close-account request that passed authentication and the closed check.
Accepted(r) ==
    /\ req[r].kind = "close_account"
    /\ req[r].agent # None
    /\ req[r].resp.code # 400

\* A close-account request that has returned its closure response.
Closed(r) == req[r].kind = "close_account" /\ req[r].pc = "done" /\ req[r].resp.code = 200

\* The request is made in the name of the agent with this id.
For(r, id) == req[r].agent # None /\ Get(req[r].agent).id = id

\* C1: of the close-account requests for one agent, exactly one executes the
\* closure sequence and writes the ledger; any other one is rejected.  Two
\* requests that both wrote the ledger of one agent both executed the sequence.
C1_OneClosurePerAgent ==
    \A r, q \in Reqs :
        (r # q /\ Accepted(r) /\ Accepted(q)
            /\ Get(req[r].agent).id = Get(req[q].agent).id)
        => ~(req[r].writes > 0 /\ req[q].writes > 0)

\* C2: a close-account call that arrives after a close-account call on the same
\* agent has returned is rejected with 400 "Account already closed.", in one
\* step that calls no exchange and leaves the agents table as it is; a request
\* that has ended takes no further step.
C2_ReplayRejected ==
    [][\A r \in Reqs :
          /\ (/\ req[r].pc = "idle"
              /\ req'[r].kind = "close_account"
              /\ req'[r].agent # None
              /\ \E q \in Reqs : Closed(q) /\ For(q, Get(req'[r].agent).id))
             => /\ req'[r].pc = "done"
                /\ req'[r].resp.code = 400
                /\ req'[r].resp.detail = <<"Account already closed.">>
                /\ req'[r].writes = 0
                /\ agents' = agents
                /\ exchangeCalls' = NoCalls
          /\ req[r].pc = "done" => req'[r] = req[r]]_vars

\* C2's case: one close-account call has returned its closure response and a
\* later one on the same agent has been rejected as already closed.
C2_Witness ==
    \E r, q \in Reqs :
        /\ Closed(q) /\ req[q].writes = 1
        /\ req[r].kind = "close_account" /\ For(r, Get(req[q].agent).id)
        /\ req[r].resp.code = 400 /\ req[r].writes = 0

\* C3: the status of an agent changes only from pending_deposit to active and
\* from active to closed.
C3_StatusOrder ==
    [][\A i \in DOMAIN agents :
          agents'[i].status # agents[i].status
          => <<agents[i].status, agents'[i].status>> \in
                {<<"pending_deposit", "active">>, <<"active", "closed">>}]_vars

\* C4: once the stored status of an agent is closed, no step writes its row.
C4_ClosedRowFrozen ==
    [][\A i \in DOMAIN agents :
          agents[i].status = "closed" => agents'[i] = agents[i]]_vars

\* The columns populated on close.
ClosureColumns == {"closed_at", "final_equity", "final_pnl", "final_pnl_pct", "withdrawal_tx"}

\* C5: the closure columns of every row are all unset when its status is not
\* closed and all set when it is.
C5_ClosureFieldsAllOrNothing ==
    \A i \in DOMAIN agents :
        LET set == {f \in ClosureColumns : agents[i][f] # None}
        IN IF agents[i].status = "closed" THEN set = ClosureColumns ELSE set = {}

\* C6: an accepted close-account request that has ended made exactly one ledger
\* write, whatever the number k of position closes that failed; with k > 0 its
\* response is "partial" and its errors list has length k.
C6_OneWritePerClosure ==
    \A r \in Reqs :
        (Accepted(r) /\ req[r].pc = "done")
        => /\ req[r].writes = 1
           /\ Len(req[r].errors) = req[r].failed
           /\ req[r].failed > 0 => req[r].resp.status = "partial"

\* C7: an accepted close-account request is never aborted by the failure of a
\* step: when it ends, it has set the status of its agent to closed and it
\* answers "ok" or "partial".
C7_NeverAborted ==
    \A r \in Reqs :
        (Accepted(r) /\ req[r].pc = "done")
        => /\ req[r].resp.code = 200
           /\ req[r].resp.status \in {"ok", "partial"}
           /\ \A i \in DOMAIN agents :
                 agents[i].id = Get(req[r].agent).id => agents[i].status = "closed"

\* C8: a closed row holds the account value a closure of that agent fetched as
\* final_equity, final_equity - deposit_amount as final_pnl, and
\* final_pnl / deposit_amount * 100 as final_pnl_pct (0 when deposit_amount is 0).
C8_FinalAccounting ==
    \A i \in DOMAIN agents :
        agents[i].status = "closed"
        => LET row == agents[i]
               pct == Get(row.final_pnl_pct)
           IN /\ \E r \in Reqs : /\ For(r, row.id) /\ req[r].writes > 0
                                 /\ row.final_equity = Some(req[r].final_balance)
              /\ Get(row.final_pnl) = Get(row.final_equity) - row.deposit_amount
              /\ pct.den > 0
              /\ IF row.deposit_amount = 0 THEN pct.num = 0
                 ELSE pct.num * row.deposit_amount = Get(row.final_pnl) * 100 * pct.den

\* C8's cases: deposit 1000 closed at 1500 (500, 50 %), at 800 (-200, -20 %),
\* and a deposit of 0 closed with a percentage of 0.
C8_Witness ==
    \E i \in DOMAIN agents :
        /\ agents[i].status = "closed"
        /\ agents[i].deposit_amount = 1000
        /\ agents[i].final_equity = Some(800)
        /\ agents[i].final_pnl = Some(-200)
        /\ agents[i].final_pnl_pct = Some([num |-> -20, den |-> 1])

\* C9: the step that returns the closure response answers "ok" when no position
\* close of step 1 failed and "partial" otherwise, and the final_balance and
\* final_pnl of the response are those the same step wrote to the ledger.
C9_ResponseMatchesLedger ==
    [][\A r \in Reqs :
          (req[r].pc # "done" /\ req'[r].pc = "done" /\ req'[r].kind = "close_account"
              /\ req'[r].resp.code = 200)
          => /\ req'[r].resp.status = (IF req[r].failed = 0 THEN "ok" ELSE "partial")
             /\ \A i \in DOMAIN agents :
                   agents[i].id = Get(req[r].agent).id
                   => /\ agents'[i].final_equity = req'[r].resp.final_balance
                      /\ agents'[i].final_pnl = req'[r].resp.final_pnl
                      /\ agents'[i].final_equity # None]_vars

\* C9's case: a closure has answered "partial" after a failed position close.
C9_Witness ==
    \E r \in Reqs : Closed(r) /\ req[r].failed > 0 /\ req[r].resp.status = "partial"

\* C10: a trading request of an authenticated agent whose status is not active
\* ends with a 400, and no step of it calls the exchange.
C10_InactiveRejected ==
    \A r \in Reqs :
        (/\ req[r].kind \in {"order", "close", "leverage"}
         /\ req[r].agent # None
         /\ Get(req[r].agent).status # "active")
        => /\ req[r].pc = "done" => req[r].resp.code = 400
           /\ exchangeCalls.req # r

\* The gateway operation each trading intent is forwarded to, as the first
\* remote call it makes: market_order starts with all_mids and limit_order with
\* order, close_position with user_state.
ForwardedOps ==
    [order |-> {"all_mids", "order"}, close |-> {"user_state"},
     leverage |-> {"update_leverage"}, cancel_order |-> {"cancel"}]

\* The key of the request is that of an agent that was active when it arrived.
FromActiveAgent(r) ==
    LET auth == get_agent_from_api_key(agents, req'[r].key).agent
    IN /\ auth # None
       /\ IF req'[r].agent # None THEN Get(req'[r].agent).status = "active"
          ELSE Get(auth).status = "active"

\* C11: a trading request (order, close, leverage, cancel order) of an
\* authenticated active agent whose body is well formed is forwarded: the step
\* that answers it calls the exchange gateway operation of its intent.
C11_IntentsForwarded ==
    [][\A r \in Reqs :
          (/\ req[r].pc # "done" /\ req'[r].pc = "done"
           /\ req'[r].kind \in DOMAIN ForwardedOps
           /\ FromActiveAgent(r)
           /\ req'[r].resp.code # 400)
          => /\ exchangeCalls'.req = r
             /\ exchangeCalls'.calls[1].op \in ForwardedOps[req'[r].kind]]_vars

\* The request was refused by authentication with this message, before any
\* store write or exchange call.
Unauthorized(r, message) ==
    /\ req'[r].pc = "done"
    /\ req'[r].resp.code = 401
    /\ req'[r].resp.detail = <<message>>
    /\ req'[r].agent = None
    /\ agents' = agents
    /\ exchangeCalls' = NoCalls

\* C12: when a request reaches an authenticated handler, a missing key or one
\* without the prefix rc_ is refused with 401 "Invalid API key format", a well
\* formed key whose SHA-256 hash no agent stores with 401 "Invalid API key",
\* both without a store write or an exchange call; otherwise the handler works
\* for a stored agent whose api_key_hash is the hash of the key.
C12_Authentication ==
    [][\A r \in Reqs :
          (/\ req[r].pc = "idle" /\ req'[r].pc # "idle"
           /\ req'[r].kind \in {"close_account", "order", "close", "leverage"})
          => LET key == req'[r].key
             IN IF key = None \/ Get(key).prefix # "rc_"
                THEN Unauthorized(r, "Invalid API key format")
                ELSE IF \A i \in DOMAIN agents : agents[i].api_key_hash # sha256(Get(key))
                THEN Unauthorized(r, "Invalid API key")
                ELSE /\ req'[r].resp.code # 401
                     /\ req'[r].agent # None
                     /\ \E i \in DOMAIN agents :
                           /\ agents[i].api_key_hash = sha256(Get(key))
                           /\ Get(req'[r].agent) = agents[i]]_vars

\* C12's cases: one request refused for the format of its key (a key that is
\* present and does not start with rc_), and one for a key of no agent.
C12_Witness ==
    \E r, q \in Reqs :
        /\ req[r].key = Some(ApiKey("xx_", 1))
        /\ req[r].resp.code = 401 /\ req[r].resp.detail = <<"Invalid API key format">>
        /\ req[q].key = Some(KeyOf(0))
        /\ req[q].resp.code = 401 /\ req[q].resp.detail = <<"Invalid API key">>

\* The record is the one create_agent was given, and the key is in no column
\* of it that holds text the application generated.
Persists(row, agent, key) ==
    /\ row = agent
    /\ key \notin {row.wallet_address, row.private_key_encrypted, row.api_key_hash}

\* C13: the step that registers an agent appends one row to the agents table,
\* the agent the response shows: its status is pending_deposit, its
\* api_key_hash is the SHA-256 hash of the key the response issues, and the key
\* itself is in no column of any stored row.
C13_RegisteredAgent ==
    [][\A g \in Regs :
          (reg[g].pc = "create" /\ reg'[g].pc = "done" /\ reg'[g].api_key # None)
          => LET key == Get(reg'[g].api_key)
                 row == agents'[Len(agents')]
             IN /\ agents' = Append(agents, row)
                /\ Persists(row, Get(reg'[g].agent), key)
                /\ row.status = "pending_deposit"
                /\ row.api_key_hash = sha256(key)
                /\ row.name = reg[g].name /\ row.deposit_amount = reg[g].deposit_amount
                /\ \A i \in DOMAIN agents' :
                      key \notin {agents'[i].wallet_address,
                                  agents'[i].private_key_encrypted,
                                  agents'[i].api_key_hash}]_vars

\* C13's case: a registration has issued a key whose hash a pending_deposit
\* row stores.
C13_Witness ==
    \E g \in Regs, i \in DOMAIN agents :
        /\ reg[g].pc = "done" /\ reg[g].api_key # None
        /\ agents[i].api_key_hash = sha256(Get(reg[g].api_key))
        /\ agents[i].status = "pending_deposit"
        /\ agents[i].deposit_amount = 100

\* The name is that of a stored agent.
NameTaken(name) == \E i \in DOMAIN agents : agents[i].name = name

\* C14: when a form is validated, it is refused with an error and no change of
\* the agents table if the length of the name is outside 3..32, the deposit is
\* outside 10..100 or a stored agent has the name, and it goes on to create
\* the agent otherwise; a refused registration takes no further step, and an
\* accepted one inserts one agent with the name and the deposit of the form.
C14_RegistrationValidated ==
    [][\A g \in Regs :
          /\ (reg[g].pc = "idle" /\ reg'[g].pc # "idle")
             => LET name == reg'[g].name
                    deposit == reg'[g].deposit_amount
                IN IF \/ Len(name) \notin 3..32
                      \/ deposit < 10 \/ deposit > 100
                      \/ NameTaken(name)
                   THEN /\ reg'[g].pc = "done" /\ reg'[g].error # <<>>
                        /\ reg'[g].agent = None
                        /\ agents' = agents
                   ELSE reg'[g].pc = "create" /\ reg'[g].error = <<>> /\ agents' = agents
          /\ reg[g].pc = "done" => reg'[g] = reg[g]
          /\ (reg[g].pc = "create" /\ reg'[g] # reg[g])
             => /\ reg'[g].error = <<>>
                /\ Len(agents') = Len(agents) + 1
                /\ agents'[Len(agents')].name = reg[g].name
                /\ agents'[Len(agents')].deposit_amount = reg[g].deposit_amount]_vars

\* C14's cases: one registration accepted, and a later one with the same name
\* refused because the name is taken.
C14_Witness ==
    \E g, h \in Regs :
        /\ reg[g].pc = "done" /\ reg[g].agent # None
        /\ reg[h].pc = "done" /\ reg[h].name = reg[g].name
        /\ reg[h].error = <<"Agent name '", reg[h].name, "' is already taken.">>
        /\ Len(agents) = 1

\* C15: no two stored agents share a name, a wallet address or a credential
\* hash.
C15_AgentsUnique ==
    \A i, j \in DOMAIN agents :
        i # j => /\ agents[i].name # agents[j].name
                 /\ agents[i].wallet_address # agents[j].wallet_address
                 /\ agents[i].api_key_hash # agents[j].api_key_hash

\* The trades of an agent, by their place in the table.
TradesOf(agent_id) == {i \in DOMAIN trades : trades[i].agent_id = agent_id}

RECURSIVE PnlOver(_)
\* The realized P&L of a set of trades, added up.
PnlOver(ix) ==
    IF ix = {} THEN 0
    ELSE LET i == CHOOSE i \in ix : TRUE
         IN trades[i].realized_pnl + PnlOver(ix \ {i})

\* C18: get_agent_stats(id) returns total_trades = the number N of trades of
\* that agent, winning_trades = the number w of them with realized_pnl > 0,
\* win_rate = w / N * 100 (0 when N = 0) and total_pnl = the sum of their
\* realized_pnl (0 when N = 0), whatever trades other agents have.
C18_AgentStats ==
    [][(out' # out /\ out'.op = "get_agent_stats")
       => LET mine == TradesOf(Get(out'.arg))
              N == Cardinality(mine)
              w == Cardinality({i \in mine : trades[i].realized_pnl > 0})
              stats == Get(out'.value)
          IN /\ stats.total_trades = N
             /\ stats.winning_trades = w
             /\ stats.win_rate.den > 0
             /\ IF N = 0 THEN stats.win_rate.num = 0
                ELSE stats.win_rate.num * N = w * 100 * stats.win_rate.den
             /\ stats.total_pnl = PnlOver(mine)]_vars

\* C18's case: the statistics of an agent with a winning trade and a trade of
\* no profit, read while another agent has a trade too: 2 trades, 1 win, 50 %.
C18_Witness ==
    /\ out.op = "get_agent_stats" /\ out.arg = Some(1)
    /\ \E i, j, k \in DOMAIN trades :
          /\ trades[i].agent_id = 1 /\ trades[i].realized_pnl = 0
          /\ trades[j].agent_id = 1 /\ trades[j].realized_pnl > 0
          /\ trades[k].agent_id # 1
    /\ Get(out.value).total_trades = 2
    /\ Get(out.value).winning_trades = 1
    /\ Get(out.value).win_rate = [num |-> 50, den |-> 1]
    /\ Get(out.value).total_pnl = 5

\* C19: a step that changes the trades table appends one row whose id is
\* greater than every id in it and leaves the rows it had as they were, and
\* the agent_id of every stored trade is the id of a stored agent.
C19_TradesAppendOnly ==
    [][/\ trades' # trades
          => /\ Len(trades') = Len(trades) + 1
             /\ SubSeq(trades', 1, Len(trades)) = trades
             /\ \A i \in DOMAIN trades : trades[i].id < trades'[Len(trades')].id
       /\ \A i \in DOMAIN trades' :
             \E j \in DOMAIN agents' : agents'[j].id = trades'[i].agent_id]_vars

\* C17: update_agent_status(id, status, fields) sets the status of the row
\* with that id and each field passed with a value, leaves its fields passed
\* as None and its fields not passed as they were stored, and changes no
\* other row.
C17_PartialUpdate ==
    [][(out' # out /\ out'.op = "update_agent_status")
       => LET call == Get(out'.arg)
              passed == {f \in DOMAIN call.kwargs : call.kwargs[f] # None}
          IN /\ DOMAIN agents' = DOMAIN agents
             /\ \A i \in DOMAIN agents :
                   IF agents[i].id = call.agent_id
                   THEN /\ agents'[i].status = call.status
                        /\ \A f \in passed : agents'[i][f] = call.kwargs[f]
                        /\ \A f \in DOMAIN agents[i] \ (passed \cup {"status"}) :
                              agents'[i][f] = agents[i][f]
                   ELSE agents'[i] = agents[i]]_vars

\* C17's case: a call that passes final_pnl_pct as None and final_equity not
\* at all on a row that stores both, and leaves both stored.
C17_Witness ==
    /\ out.op = "update_agent_status"
    /\ Get(out.arg).kwargs = [final_pnl_pct |-> None]
    /\ \E i \in DOMAIN agents :
          /\ agents[i].id = Get(out.arg).agent_id
          /\ agents[i].status = Get(out.arg).status
          /\ agents[i].final_pnl_pct = Some(Rat(50, 1))
          /\ agents[i].final_equity = Some(1500)

\* final_pnl_pct of x is below that of y; a row without one is below every
\* row that has one.
PctBelow(x, y) ==
    /\ y.final_pnl_pct # None
    /\ x.final_pnl_pct = None \/ Less(Get(x.final_pnl_pct), Get(y.final_pnl_pct))

\* The listing returned holds each closed agent once and no other agent.
ListsClosed(rows) ==
    /\ \A k \in DOMAIN rows : \E i \in DOMAIN agents :
          agents[i] = rows[k] /\ agents[i].status = "closed"
    /\ \A i \in DOMAIN agents :
          agents[i].status = "closed"
          => Cardinality({k \in DOMAIN rows : rows[k].id = agents[i].id}) = 1

\* C20 as stated: get_closed_agents returns exactly the closed agents, each
\* with a final_pnl_pct strictly above that of the next one.
C20_StrictlyDescending ==
    [][(out' # out /\ out'.op = "get_closed_agents")
       => LET rows == Get(out'.value)
          IN /\ ListsClosed(rows)
             /\ \A k, l \in DOMAIN rows : k < l => PctBelow(rows[l], rows[k])]_vars

\* C20 as amended: get_closed_agents returns exactly the closed agents, none
\* with a final_pnl_pct below that of a later one; agents without a
\* final_pnl_pct come after all that have one, and agents with equal
\* final_pnl_pct in either order.
C20_Descending ==
    [][(out' # out /\ out'.op = "get_closed_agents")
       => LET rows == Get(out'.value)
          IN /\ ListsClosed(rows)
             /\ \A k, l \in DOMAIN rows : k < l => ~PctBelow(rows[k], rows[l])]_vars

\* C20's case: the listing of two closed agents, the one with -20 % stored
\* first and listed last.
C20_Witness ==
    /\ out.op = "get_closed_agents"
    /\ Len(Get(out.value)) = 2
    /\ Get(out.value)[1].id = 2 /\ Get(out.value)[1].final_pnl_pct = Some(Rat(50, 1))
    /\ Get(out.value)[2].id = 1 /\ Get(out.value)[2].final_pnl_pct = Some(Rat(-20, 1))
    /\ \A i \in DOMAIN agents : agents[i].status = "closed"

\* C16: no step changes the deposit_amount of a stored agent: not a trading
\* request, not a closure and its update_agent_status call, not record_trade.
C16_DepositImmutable ==
    [][\A i \in DOMAIN agents :
          /\ i \in DOMAIN agents'
          /\ agents'[i].id = agents[i].id
          /\ agents'[i].deposit_amount = agents[i].deposit_amount]_vars

\* C16's case: an agent with a deposit of 1000 closed at a balance that is not
\* its deposit, with a trade of it recorded.
C16_Witness ==
    \E r \in Reqs, i \in DOMAIN agents :
        /\ Closed(r) /\ For(r, agents[i].id)
        /\ agents[i].status = "closed"
        /\ agents[i].deposit_amount = 1000
        /\ agents[i].final_equity = Some(1500)
        /\ \E k \in DOMAIN trades : trades[k].agent_id = agents[i].id

\* The trading operations of the exchange gateway.
GatewayOps ==
    {"market_order", "limit_order", "close_position", "cancel_order", "cancel_all_orders",
     "set_leverage"}

\* The remote calls of the last gateway call that submit an order.
OrdersOf(res) == SelectSeq(res.calls, LAMBDA c : c.op = "order")

\* C21: every trading operation of the gateway returns a structured outcome
\* whatever remote call of it fails, the lookups of positions, open orders and
\* mid prices included: none of them raises to its caller.
C21_FailuresReturned ==
    out.op \in GatewayOps => ~Get(out.value).raised

\* C22: close_position, once it has the positions, returns an outcome that is
\* not a failure and submits no order when the symbol has no position; with a
\* position and a mid price it submits one immediate-or-cancel order, a sell of
\* a long and a buy of a short, of the absolute size of the position.
C22_ClosePosition ==
    (out.op = "close_position" /\ ~Get(out.arg).state.raised) =>
        LET a == Get(out.arg)
            res == Get(out.value)
            szi == a.state.szi[a.symbol]
        IN /\ ~res.raised
           /\ szi = 0 => res.value.success /\ OrdersOf(res) = <<>>
           /\ (szi # 0 /\ ~a.mids.raised /\ IsSome(a.mids.mid)) =>
                 /\ Len(OrdersOf(res)) = 1
                 /\ OrdersOf(res)[1].symbol = a.symbol
                 /\ OrdersOf(res)[1].is_buy = (szi < 0)
                 /\ OrdersOf(res)[1].sz = Abs(szi)
                 /\ OrdersOf(res)[1].tif = "Ioc"

\* C23: cancel_all_orders, once it has the open orders, asks the exchange to
\* cancel each order that matches the symbol (every order without one) once,
\* in the order listed, and no other, a failed cancellation or not among them;
\* it returns the number of cancellations the exchange answered "ok".
C23_BestEffort ==
    (out.op = "cancel_all_orders" /\ ~Get(out.arg).open.raised) =>
        LET a == Get(out.arg)
            res == Get(out.value)
            listed == a.open.orders
            matching == {i \in 1..Len(listed) : a.symbol = None \/ listed[i].coin = Get(a.symbol)}
            cancels == SelectSeq(res.calls, LAMBDA c : c.op = "cancel")
        IN /\ ~res.raised
           /\ Len(cancels) = Cardinality(matching)
           /\ \A i \in matching :
                 Cardinality({k \in 1..Len(cancels) :
                     cancels[k].sz = listed[i].oid /\ cancels[k].symbol = listed[i].coin}) = 1
           /\ \A k, l \in 1..Len(cancels) : k < l => cancels[k].sz < cancels[l].sz
           /\ res.value = Cardinality({k \in 1..Len(cancels) : a.acks[k] = "ok"})

\* Two open orders, the first cancellation failed and the second was made and counted.
C23_Witness ==
    /\ out.op = "cancel_all_orders"
    /\ Get(out.arg).symbol = None
    /\ Len(Get(out.arg).open.orders) = 2
    /\ Get(out.arg).acks[1] # "ok" /\ Get(out.arg).acks[2] = "ok"
    /\ Len(Get(out.value).calls) = 3
    /\ Get(out.value).value = 1

\* C24: market_order, given a mid price, submits one immediate-or-cancel order,
\* a buy priced at or above the mid and a sell at or below it; the outcome is a
\* success with the filled size exactly when the exchange reports a fill, a
\* success without fill details exactly when it reports the order resting, and
\* a failure with a message otherwise.
C24_MarketOrder ==
    (out.op = "market_order" /\ ~Get(out.arg).mids.raised /\ IsSome(Get(out.arg).mids.mid)) =>
        LET a == Get(out.arg)
            res == Get(out.value)
            mid == Get(a.mids.mid)
        IN /\ ~res.raised
           /\ Len(OrdersOf(res)) = 1
           /\ OrdersOf(res)[1].tif = "Ioc"
           /\ OrdersOf(res)[1].is_buy = (a.side = "buy")
           /\ OrdersOf(res)[1].is_buy => OrdersOf(res)[1].px >= mid
           /\ ~OrdersOf(res)[1].is_buy => OrdersOf(res)[1].px <= mid
           /\ (res.value.success /\ res.value.filled_size = a.size) <=> a.order = "filled"
           /\ (res.value.success /\ res.value.filled_size = 0) <=> a.order = "resting"
           /\ ~res.value.success <=> a.order \notin {"filled", "resting"}
           /\ ~res.value.success => res.value.message # ""

\* The steps of a closure in their order; a failed step ends the request.
ClosureOrder ==
    {<<"positions", "closing">>, <<"positions", "cancel">>, <<"closing", "closing">>,
     <<"closing", "cancel">>, <<"cancel", "balance">>, <<"balance", "write">>,
     <<"write", "done">>} \cup {<<pc, "done">> : pc \in {"positions", "closing", "cancel", "balance"}}

\* The remote calls a step of a closure may make, by the step.
ClosureCalls ==
    [positions |-> {"user_state"}, closing |-> {"user_state", "all_mids", "order"},
     cancel |-> {"open_orders", "cancel"}, balance |-> {"user_state"}, write |-> {}]

\* The request r takes a step.
Steps(r) == req'[r] # req[r]

\* C25: the steps of one closure happen in a fixed order: the position-close
\* attempts (the only step that submits orders), then cancel-all-orders, then
\* the balance fetch (the only step that sets final_balance), then the one
\* write; the write sets status closed and final_equity to that final_balance,
\* and the agents table changes in no other step.
C25_StepsInOrder ==
    [][\A r \in Reqs :
          (req[r].kind = "close_account" /\ req[r].pc \notin {"idle", "done"} /\ Steps(r)) =>
             /\ <<req[r].pc, req'[r].pc>> \in ClosureOrder
             /\ \A k \in 1..Len(exchangeCalls'.calls) :
                   exchangeCalls'.calls[k].op \in ClosureCalls[req[r].pc]
             /\ req[r].pc # "balance" => req'[r].final_balance = req[r].final_balance
             /\ req[r].pc = "closing" => \E k \in 1..Len(exchangeCalls'.calls) :
                                             exchangeCalls'.calls[k].op = "user_state"
             /\ req[r].pc = "cancel" => exchangeCalls'.calls[1].op = "open_orders"
             /\ req'[r].writes = req[r].writes + (IF req[r].pc = "write" THEN 1 ELSE 0)
             /\ req'[r].writes <= 1
             /\ IF req[r].pc = "write"
                THEN \A i \in DOMAIN agents :
                        agents[i].id = Get(req[r].agent).id =>
                           /\ agents'[i].status = "closed"
                           /\ agents'[i].final_equity = Some(req[r].final_balance)
                ELSE agents' = agents]_vars

\* A closure that closed a position and wrote the balance it fetched last.
C25_Witness ==
    \E r \in Reqs :
        /\ Closed(r) /\ req[r].writes = 1 /\ req[r].positions_closed # <<>>
        /\ \A i \in DOMAIN agents :
              agents[i].id = Get(req[r].agent).id =>
                 agents[i].final_equity = Some(req[r].final_balance)

\* C26: every turn of the loop over the snapshot records one outcome, closed or
\* error, for its position and goes on to the next position, or to the
\* cancellation after the last: a failed attempt does not end the loop, and
\* after the turn for position idx there are idx outcomes.
C26_EveryPositionAttempted ==
    [][\A r \in Reqs :
          (req[r].kind = "close_account" /\ req[r].pc = "closing" /\ Steps(r)) =>
             /\ req'[r].pc = (IF req[r].idx = Len(req[r].positions) THEN "cancel" ELSE "closing")
             /\ Len(req'[r].positions_closed) + Len(req'[r].errors) = req[r].idx
             /\ Len(OrdersOf(exchangeCalls')) <= 1]_vars

\* C27: a close-account request accepted for an agent that is not closed ends,
\* and when it has ended the stored status of its agent is closed.
C27_ClosureCompletes ==
    \A r \in {1} :
        (Accepted(r) /\ req[r].pc # "done") ~>
            (/\ req[r].pc = "done"
             /\ req[r].agent # None
             /\ \A i \in DOMAIN agents :
                   agents[i].id = Get(req[r].agent).id => agents[i].status = "closed")

\* The remote calls that submit an order or change the leverage.
Submissions == {"order", "update_leverage"}

\* C29: a step of a trading request (order, close position, leverage) submits
\* no order and no leverage change when the stored status of its agent is
\* closed, whatever a close-account request of the agent did between its steps.
C29_NothingAfterClosed ==
    [][\A r \in Reqs :
          (/\ req[r].kind \in {"order", "close", "leverage"} /\ Steps(r)
           /\ \E i \in DOMAIN agents :
                 agents[i].id = Get(req[r].agent).id /\ agents[i].status = "closed")
          => \A k \in 1..Len(exchangeCalls'.calls) :
                exchangeCalls'.calls[k].op \notin Submissions]_vars

\* C28: an order request of type "stop" (its body carries a trigger_price)
\* that is accepted is placed as a stop order: the handler submits no order
\* that is immediate-or-cancel at the market or a plain good-till-cancelled
\* limit order, and it has submitted an order when it answers "ok".
C28_StopOrderPlaced ==
    [][\A r \in Reqs :
          (/\ req[r].kind = "order" /\ req[r].pc = "body" /\ Steps(r)
           /\ req'[r].order_type = "stop"
           /\ req'[r].resp.code # 400)
          => /\ \A k \in 1..Len(OrdersOf(exchangeCalls')) :
                   OrdersOf(exchangeCalls')[k].tif \notin {"Ioc", "Gtc"}
             /\ req'[r].resp.status = "ok" => OrdersOf(exchangeCalls') # <<>>]_vars

\* The ids of the agents a listing holds.
Listed(rows) == {rows[k].id : k \in 1..Len(rows)}

\* C30: whatever the two SELECTs give, the active listing holds each agent
\* whose status is active once and no other agent, the closed listing each
\* agent whose status is closed once and no other: no agent is in both, a
\* pending_deposit agent is in neither, and the agent of a completed closure is
\* in the closed listing and not in the active one.
C30_ListingsPartition ==
    \A active \in get_active_agents(agents), closed \in get_closed_agents(agents) :
        /\ \A i \in DOMAIN agents :
              /\ agents[i].id \in Listed(active) <=> agents[i].status = "active"
              /\ agents[i].id \in Listed(closed) <=> agents[i].status = "closed"
              /\ agents[i].status = "pending_deposit" =>
                    agents[i].id \notin Listed(active) \cup Listed(closed)
        /\ Listed(active) \cap Listed(closed) = {}
        /\ Cardinality(Listed(active)) = Len(active)
        /\ Cardinality(Listed(closed)) = Len(closed)
        /\ \A r \in Reqs :
              Closed(r) => /\ Get(req[r].agent).id \in Listed(closed)
                           /\ Get(req[r].agent).id \notin Listed(active)

\* The active listing read after a closure: it holds another agent and not
\* the closed one, which the closed listing holds.
C30_Witness ==
    /\ Closed(1)
    /\ out.op = "get_active_agents"
    /\ Get(out.value) # <<>>
    /\ Get(req[1].agent).id \notin Listed(Get(out.value))
    /\ \A closed \in get_closed_agents(agents) : Get(req[1].agent).id \in Listed(closed)

====
